---------------------------- MODULE Spec2Model ----------------------------
(***************************************************************************)
(* A model of IPTV_checker.py: the liveness prober (check_channel_status), *)
(* the checkpoint store (load_processed_channels / write_log_entry) and    *)
(* the run orchestrator (parse_m3u8_file).                                 *)
(*                                                                         *)
(* Text is modelled as a sequence of one-character strings, so that the    *)
(* code's strip / split / isdigit / int / substring tests are computed     *)
(* and not assumed.                                                        *)
(***************************************************************************)
EXTENDS Integers, Sequences, FiniteSets, TLC

VARIABLES
    \* ---- command line (main, lines 398-423) and the two files on disk
    playlist,            \* the catalogue file
    group_title,         \* args.group; the empty text stands for None too
    extended_timeout,    \* args.extended; 0 stands for None too
    split,               \* args.split
    rename,              \* args.rename
    log_file,            \* the checkpoint file
    \* ---- locals of parse_m3u8_file
    pc,                  \* position in parse_m3u8_file
    processed_channels,
    last_index,
    current_channel,
    total_channels,
    i,
    status,
    working_channels,
    dead_channels,
    renamed_lines,
    mislabeled_channels,
    low_framerate_channels,
    \* ---- what a run emits
    console,             \* the entries console_log_entry has printed
    working_playlist,
    dead_playlist,
    renamed_playlist,
    findings_printed,
    \* ---- locals of check_channel_status / attempt_check (stepwise prober)
    ppc,                 \* position in check_channel_status
    url,
    current_timeout,
    attempt,
    accumulated_data,
    pstatus,
    \* ---- observations of the environment (history, never read by the code)
    log_records,         \* the records the checkpoint file was rendered from
    probed,              \* URLs handed to check_channel_status in this run
    classified,          \* identifiers classified (processed) in this run
    completed,           \* identifiers classified in an earlier run
    run,                 \* number of the current run
    loaded_channels,     \* the set load_processed_channels returned to this run
    requests,            \* HTTP requests issued: one record per request
    slept,               \* seconds slept by the current phase
    phases,              \* the phases run by this probe, with their results
    ffmpeg_runs,         \* outcomes of the decode verification tool
    \* ---- one call of a function of the profiler or of the label check
    call,                \* the function called and its arguments
    returned             \* << >>, or << the value it returned >>

vars == << playlist, group_title, extended_timeout, split, rename, log_file,
           pc, processed_channels, last_index, current_channel,
           total_channels, i, status, working_channels, dead_channels,
           renamed_lines, mislabeled_channels, low_framerate_channels,
           console, working_playlist, dead_playlist, renamed_playlist,
           findings_printed, ppc, url, current_timeout, attempt,
           accumulated_data, pstatus, log_records, probed, classified,
           completed, run, loaded_channels,
           requests, slept, phases, ffmpeg_runs ,
           call, returned >>

\* Python's None where the other values are strings
None == "None"

\* A file on disk: whether it exists, and its lines (without the newline)
NoFile == [ exists |-> FALSE, lines |-> << >> ]

File(ls) == [ exists |-> TRUE, lines |-> ls ]

-----------------------------------------------------------------------------
(***************************************************************************)
(* Text: Python's str operations on sequences of characters.               *)
(***************************************************************************)

Digits == << "0", "1", "2", "3", "4", "5", "6", "7", "8", "9" >>

IsDigitChar(c) == \E d \in 1..10 : Digits[d] = c

DigitValue(c) == (CHOOSE d \in 1..10 : Digits[d] = c) - 1

\* str.isdigit(): non-empty and every character a digit
isdigit(s) == Len(s) > 0 /\ \A k \in 1..Len(s) : IsDigitChar(s[k])

\* int(s) for a string of decimal digits
RECURSIVE int(_)
int(s) ==
    IF Len(s) = 0 THEN 0
    ELSE 10 * int(SubSeq(s, 1, Len(s) - 1)) + DigitValue(s[Len(s)])

\* str(n) for n >= 0
RECURSIVE str(_)
str(n) ==
    IF n < 10 THEN << Digits[n + 1] >>
    ELSE str(n \div 10) \o << Digits[(n % 10) + 1] >>

IsSpace(c) == c \in {" ", "\t", "\n"}

\* str.strip()
RECURSIVE lstrip(_)
lstrip(s) ==
    IF Len(s) > 0 /\ IsSpace(s[1]) THEN lstrip(Tail(s)) ELSE s

RECURSIVE rstrip(_)
rstrip(s) ==
    IF Len(s) > 0 /\ IsSpace(s[Len(s)])
    THEN rstrip(SubSeq(s, 1, Len(s) - 1)) ELSE s

strip(s) == rstrip(lstrip(s))

\* s.startswith(p)
startswith(s, p) == Len(s) >= Len(p) /\ SubSeq(s, 1, Len(p)) = p

\* index of the first occurrence of p in s, 0 when there is none
find(s, p) ==
    LET hits == { k \in 1..(Len(s) - Len(p) + 1) :
                    SubSeq(s, k, k + Len(p) - 1) = p }
    IN  IF hits = {} THEN 0
        ELSE CHOOSE k \in hits : \A h \in hits : k <= h

\* p in s
contains(s, p) == Len(p) = 0 \/ find(s, p) > 0

\* s.split(sep): the pieces between the non-overlapping occurrences of sep,
\* found left to right
RECURSIVE splitsep(_, _)
splitsep(s, sep) ==
    LET k == find(s, sep)
    IN  IF k = 0 THEN << s >>
        ELSE << SubSeq(s, 1, k - 1) >>
             \o splitsep(SubSeq(s, k + Len(sep), Len(s)), sep)

\* s.split(sep, 1): at most one cut
split1(s, sep) ==
    LET k == find(s, sep)
    IN  IF k = 0 THEN << s >>
        ELSE << SubSeq(s, 1, k - 1), SubSeq(s, k + Len(sep), Len(s)) >>

\* s.split(): the runs of non-whitespace characters
RECURSIVE splitws(_)
splitws(s) ==
    LET t == lstrip(s)
        ends == { k \in 1..Len(t) : IsSpace(t[k]) }
        e == IF ends = {} THEN Len(t) + 1
             ELSE CHOOSE k \in ends : \A h \in ends : k <= h
    IN  IF Len(t) = 0 THEN << >>
        ELSE << SubSeq(t, 1, e - 1) >> \o splitws(SubSeq(t, e, Len(t)))

Max(a, b) == IF a >= b THEN a ELSE b

Range(s) == { s[k] : k \in 1..Len(s) }

-----------------------------------------------------------------------------
(***************************************************************************)
(* Checkpoint store.                                                       *)
(***************************************************************************)

\* Mutant of load_line: a line without the delimiter ends the load with
\* nothing loaded
load_line_malformed_resets(acc, line) ==
    LET parts == splitsep(strip(line), << " ", "-", " " >>)
    IN  IF Len(parts) > 1
        THEN LET index_part == splitws(parts[1])[1]
             IN  [ processed_channels |->
                       acc.processed_channels \cup { parts[2] },
                   last_index |->
                       IF isdigit(index_part)
                       THEN Max(acc.last_index, int(index_part))
                       ELSE acc.last_index ]
        ELSE [ processed_channels |-> {}, last_index |-> 0 ]

\* One iteration of the loop over the file's lines (lines 228-233).
\* parts[0].split()[0] cannot raise: the stripped line does not start with
\* white space, so parts[0] is empty only when the line starts with " - ",
\* which strip() excludes.
load_line(acc, line) ==
    LET parts == splitsep(strip(line), << " ", "-", " " >>)
    IN  IF Len(parts) > 1
        THEN LET index_part == splitws(parts[1])[1]
             IN  [ processed_channels |->
                       acc.processed_channels \cup { parts[2] },
                   last_index |->
                       IF isdigit(index_part)
                       THEN Max(acc.last_index, int(index_part))
                       ELSE acc.last_index ]
        ELSE acc

RECURSIVE load_lines(_, _)
load_lines(acc, file) ==
    IF Len(file) = 0 THEN acc
    ELSE load_lines(load_line(acc, Head(file)), Tail(file))

\* load_processed_channels(log_file), lines 222-234
load_processed_channels(file) ==
    IF ~ file.exists
    THEN [ processed_channels |-> {}, last_index |-> 0 ]
    ELSE load_lines([ processed_channels |-> {}, last_index |-> 0 ],
                    file.lines)

\* write_log_entry(log_file, entry), lines 236-238: open(log_file, 'a')
\* creates the file when it is absent. No statement of the program calls it.
write_log_entry(file, entry) == File(Append(file.lines, entry))

-----------------------------------------------------------------------------
(***************************************************************************)
(* Liveness prober: check_channel_status and its inner attempt_check.      *)
(***************************************************************************)

retries == 6

min_data_threshold == 1024 * 500

RateLimitSleep == 2

\* args.timeout, the read timeout of the base phase (default of -timeout)
BaseTimeout == 10

\* Bounds of the environment: a response body is at most MaxChunks chunks.
MaxChunks == 2

\* Sizes of the chunks iter_content may hand over (bytes); 0 is the empty
\* chunk the code tests for with "if not chunk".
ChunkSizes == { 0, 200000, 600000 }

RECURSIVE SeqsUpTo(_, _)
SeqsUpTo(S, n) ==
    IF n = 0 THEN { << >> }
    ELSE LET shorter == SeqsUpTo(S, n - 1)
         IN  shorter \cup { Append(q, x) : q \in { r \in shorter : Len(r) = n - 1 }, x \in S }

video_mp2t == << "v", "i", "d", "e", "o", "/", "m", "p", "2", "t" >>

mpegurl == << "a", "p", "p", "l", "i", "c", "a", "t", "i", "o", "n", "/",
              "v", "n", "d", ".", "a", "p", "p", "l", "e", ".",
              "m", "p", "e", "g", "u", "r", "l" >>

text_html == << "t", "e", "x", "t", "/", "h", "t", "m", "l" >>

dot_ts == << ".", "t", "s" >>

\* resp.headers.get('Content-Type', ''): the header, or '' when it is absent
ContentTypes == { video_mp2t, mpegurl, text_html, << >> }

\* What one requests.get can come to: an exception raised by the request, or
\* a response with a status code, a content type and a body; the body is the
\* chunks iter_content yields and how it ends: "eof" (the stream ends) or
\* "drop" (iter_content raises a RequestException: connection reset, read
\* timeout).
Exceptions == { "ConnectionError", "Timeout", "RequestException" }

Bodies == [ chunks : SeqsUpTo(ChunkSizes, MaxChunks), end : { "eof", "drop" } ]

NoBody == [ chunks |-> << >>, end |-> "eof" ]

Responses ==
    [ raises : Exceptions, status_code : { 0 }, content_type : { << >> },
      body : { NoBody } ]
    \cup [ raises : { None }, status_code : { 429, 404 },
           content_type : { << >> }, body : { NoBody } ]
    \cup [ raises : { None }, status_code : { 200 },
           content_type : ContentTypes, body : Bodies ]

\* The loop over resp.iter_content (lines 62-70): the outcome is "Alive"
\* (threshold reached, line 70), "unstable" (an empty chunk, lines 63-65),
\* "raised" (iter_content raised) or "exhausted" (the for loop ran out).
RECURSIVE iter_content(_, _, _)
iter_content(acc, chunks, end) ==
    IF Len(chunks) = 0
    THEN [ accumulated_data |-> acc,
           outcome |-> IF end = "drop" THEN "raised" ELSE "exhausted" ]
    ELSE IF Head(chunks) = 0
    THEN [ accumulated_data |-> acc, outcome |-> "unstable" ]
    ELSE IF acc + Head(chunks) >= min_data_threshold
    THEN [ accumulated_data |-> acc + Head(chunks), outcome |-> "Alive" ]
    ELSE iter_content(acc + Head(chunks), Tail(chunks), end)

\* line 61
is_stream(u, content_type) ==
    \/ contains(content_type, video_mp2t)
    \/ contains(u, dot_ts)
    \/ contains(content_type, mpegurl)

\* Variants of attempt_body for the mutants below: the seconds slept on a
\* 429, the result of a 429, and the result of a status that is neither 200
\* nor 429
attempt_body_variant(u, acc, resp, sleep429, on429, onOther) ==
    IF resp.raises # None
    THEN [ accumulated_data |-> acc, sleep |-> 0, result |-> "Dead" ]
    ELSE IF resp.status_code = 429
    THEN [ accumulated_data |-> acc, sleep |-> sleep429, result |-> on429 ]
    ELSE IF resp.status_code # 200
    THEN [ accumulated_data |-> acc, sleep |-> 0, result |-> onOther ]
    ELSE IF ~ is_stream(u, resp.content_type)
    THEN [ accumulated_data |-> acc, sleep |-> 0, result |-> "Dead" ]
    ELSE LET it == iter_content(acc, resp.body.chunks, resp.body.end)
         IN  [ accumulated_data |-> it.accumulated_data,
               sleep |-> 0,
               result |-> CASE it.outcome = "Alive" -> "Alive"
                            [] it.outcome = "exhausted" -> "continue"
                            [] OTHER -> "Dead" ]

\* Mutants of attempt_body: a retry that does not sleep, a retry on a status
\* that is neither 200 nor 429, and a 429 that is not retried
attempt_body_no_sleep(u, acc, resp) ==
    attempt_body_variant(u, acc, resp, 0, "continue", "Dead")

attempt_body_retry_any_status(u, acc, resp) ==
    attempt_body_variant(u, acc, resp, RateLimitSleep, "continue", "continue")

attempt_body_429_is_dead(u, acc, resp) ==
    attempt_body_variant(u, acc, resp, RateLimitSleep, "Dead", "Dead")

\* One iteration of "for attempt in range(retries)" (lines 51-90) on the
\* response resp: the new accumulated_data, the seconds slept, and result:
\* "Alive" / "Dead" when the iteration returns, "continue" when the loop
\* goes on to the next attempt.
attempt_body(u, acc, resp) ==
    IF resp.raises # None
    THEN [ accumulated_data |-> acc, sleep |-> 0, result |-> "Dead" ]
    ELSE IF resp.status_code = 429
    THEN [ accumulated_data |-> acc, sleep |-> RateLimitSleep,
           result |-> "continue" ]
    ELSE IF resp.status_code = 200
    THEN IF is_stream(u, resp.content_type)
         THEN LET it == iter_content(acc, resp.body.chunks, resp.body.end)
              IN  [ accumulated_data |-> it.accumulated_data,
                    sleep |-> 0,
                    result |-> CASE it.outcome = "Alive" -> "Alive"
                                 [] it.outcome = "unstable" -> "Dead"
                                 [] it.outcome = "raised" -> "Dead"
                                 [] OTHER -> "continue" ]
         ELSE [ accumulated_data |-> acc, sleep |-> 0, result |-> "Dead" ]
    ELSE [ accumulated_data |-> acc, sleep |-> 0, result |-> "Dead" ]

\* ---- how the environment's answer reads in the words of the specification

\* the bytes a body delivers before it ends (an empty chunk ends it)
RECURSIVE BodyBytes(_)
BodyBytes(chunks) ==
    IF Len(chunks) = 0 \/ Head(chunks) = 0 THEN 0
    ELSE Head(chunks) + BodyBytes(Tail(chunks))

HasEmptyChunk(chunks) == \E k \in 1..Len(chunks) : chunks[k] = 0

ResponseClass(u, resp) ==
    IF resp.raises # None THEN resp.raises
    ELSE IF resp.status_code = 429 THEN "429"
    ELSE IF resp.status_code # 200 THEN "other_status"
    ELSE IF ~ is_stream(u, resp.content_type) THEN "not_stream"
    ELSE IF BodyBytes(resp.body.chunks) >= min_data_threshold THEN "enough"
    ELSE IF HasEmptyChunk(resp.body.chunks) THEN "empty_chunk"
    ELSE IF resp.body.end = "drop" THEN "dropped"
    ELSE "short"

-----------------------------------------------------------------------------
(***************************************************************************)
(* check_channel_status, lines 95-117.                                     *)
(***************************************************************************)

\* Mutant of escalates: the extended timeout is not looked at
escalates_on_any_dead(st, ext) == st = "Dead"

\* line 99: "if status == 'Dead' and extended_timeout"
escalates(st, ext) == st = "Dead" /\ ext # 0

\* What subprocess.run(['ffmpeg', ...], timeout=15) can come to: the tool
\* exits with status 0 or another status, runs longer than the timeout
\* (TimeoutExpired), or is not installed (FileNotFoundError).
FfmpegOutcomes == { "exit0", "nonzero", "timeout", "missing" }

\* Mutant of ffmpeg_verdict: the exit status of the tool is not looked at
ffmpeg_verdict_ignores_exit(outcome) ==
    CASE outcome = "timeout" -> "Dead"
      [] outcome = "missing" -> "raise"
      [] OTHER -> "Alive"

\* lines 104-115, entered with status 'Alive': the status afterwards, or
\* "raise" when subprocess.run raises something other than TimeoutExpired
ffmpeg_verdict(outcome) ==
    CASE outcome = "exit0" -> "Alive"
      [] outcome = "nonzero" -> "Dead"
      [] outcome = "timeout" -> "Dead"
      [] OTHER -> "raise"

\* ---- the prober run to completion against a server

\* A server answers the n-th request of a probe with prefix[n], and with
\* tail once the prefix is used up.
ServerResponse(server, n) ==
    IF n <= Len(server.prefix) THEN server.prefix[n] ELSE server.tail

\* attempt_check from its k-th iteration on; base is the number of requests
\* the probe issued before this phase.
RECURSIVE attempt_loop(_, _, _, _, _)
attempt_loop(u, server, base, k, acc) ==
    IF k = retries
    THEN [ status |-> "Dead", requests |-> k ]
    ELSE LET r == attempt_body(u, acc, ServerResponse(server, base + k + 1))
         IN  IF r.result = "continue"
             THEN attempt_loop(u, server, base, k + 1, r.accumulated_data)
             ELSE [ status |-> r.result, requests |-> k + 1 ]

\* attempt_check(current_timeout), lines 47-93
attempt_check(u, server, base) == attempt_loop(u, server, base, 0, 0)

\* check_channel_status(url, timeout, extended_timeout=...), lines 39-117:
\* "Alive", "Dead", or "raise" when it raises
check_channel_status(u, ext, server, outcome) ==
    LET first == attempt_check(u, server, 0)
        st == IF escalates(first.status, ext)
              THEN attempt_check(u, server, first.requests).status
              ELSE first.status
    IN  IF st = "Alive" THEN ffmpeg_verdict(outcome) ELSE st

\* ---- the prober step by step: one action per request

call_vars == << call, returned >>

args_vars == << playlist, group_title, extended_timeout, split, rename >>

disk_vars == << log_file, working_playlist, dead_playlist, renamed_playlist >>

run_vars == << pc, processed_channels, last_index, current_channel,
               total_channels, i, status, working_channels, dead_channels,
               renamed_lines, mislabeled_channels, low_framerate_channels,
               console, findings_printed >>

probe_vars == << ppc, url, current_timeout, attempt, accumulated_data,
                 pstatus, requests, slept, phases, ffmpeg_runs >>

history_vars ==
    << log_records, probed, classified, completed, run, loaded_channels >>

InPhase == ppc \in { "base", "extended" }

\* attempt_check returns st: its caller goes on at line 99 (after the base
\* phase) or at line 104 (after the extended phase)
PhaseReturns(st, nreq) ==
    /\ pstatus' = st
    /\ phases' = Append(phases, [ timeout |-> current_timeout,
                                  status |-> st, requests |-> nreq ])
    /\ ppc' = IF ppc = "base" THEN "base_done" ELSE "verify"

\* One iteration of the loop of attempt_check, the server answering resp
Request(resp) ==
    /\ InPhase
    /\ attempt < retries
    /\ LET r == attempt_body(url, accumulated_data, resp)
       IN  /\ accumulated_data' = r.accumulated_data
           /\ slept' = slept + r.sleep
           /\ requests' = Append(requests, ResponseClass(url, resp))
           /\ attempt' = attempt + 1
           /\ IF r.result = "continue"
              THEN UNCHANGED << ppc, pstatus, phases >>
              ELSE PhaseReturns(r.result, attempt + 1)
    /\ UNCHANGED << url, current_timeout, ffmpeg_runs >>
    /\ UNCHANGED << call_vars, args_vars, disk_vars, run_vars, history_vars >>

\* lines 92-93: the loop ran out
MaxRetriesExceeded ==
    /\ InPhase
    /\ attempt = retries
    /\ PhaseReturns("Dead", attempt)
    /\ UNCHANGED << url, current_timeout, attempt, accumulated_data,
                    requests, slept, ffmpeg_runs >>
    /\ UNCHANGED << call_vars, args_vars, disk_vars, run_vars, history_vars >>

\* lines 99-101: the second phase, with the extended timeout
Escalate ==
    /\ ppc = "base_done"
    /\ escalates(pstatus, extended_timeout)
    /\ ppc' = "extended"
    /\ current_timeout' = extended_timeout
    /\ attempt' = 0
    /\ accumulated_data' = 0
    /\ requests' = << >>
    /\ slept' = 0
    /\ UNCHANGED << url, pstatus, phases, ffmpeg_runs >>
    /\ UNCHANGED << call_vars, args_vars, disk_vars, run_vars, history_vars >>

NoEscalate ==
    /\ ppc = "base_done"
    /\ ~ escalates(pstatus, extended_timeout)
    /\ ppc' = "verify"
    /\ UNCHANGED << url, current_timeout, attempt, accumulated_data,
                    pstatus, requests, slept, phases, ffmpeg_runs >>
    /\ UNCHANGED << call_vars, args_vars, disk_vars, run_vars, history_vars >>

\* lines 104-115: the decode verification of a stream marked alive
Verify(outcome) ==
    /\ ppc = "verify"
    /\ pstatus = "Alive"
    /\ ffmpeg_runs' = Append(ffmpeg_runs, outcome)
    /\ LET v == ffmpeg_verdict(outcome)
       IN  IF v = "raise"
           THEN /\ ppc' = "raised"
                /\ UNCHANGED pstatus
           ELSE /\ ppc' = "returned"
                /\ pstatus' = v
    /\ UNCHANGED << url, current_timeout, attempt, accumulated_data,
                    requests, slept, phases >>
    /\ UNCHANGED << call_vars, args_vars, disk_vars, run_vars, history_vars >>

\* line 117 with status 'Dead'
ReturnDead ==
    /\ ppc = "verify"
    /\ pstatus # "Alive"
    /\ ppc' = "returned"
    /\ UNCHANGED << url, current_timeout, attempt, accumulated_data,
                    pstatus, requests, slept, phases, ffmpeg_runs >>
    /\ UNCHANGED << call_vars, args_vars, disk_vars, run_vars, history_vars >>

-----------------------------------------------------------------------------
(***************************************************************************)
(* Stream profiler and consistency checker.                                *)
(***************************************************************************)

LowerLetters == << "a", "b", "c", "d", "e", "f", "g", "h", "i", "j", "k", "l", "m", "n", "o", "p", "q", "r", "s", "t", "u", "v", "w", "x", "y", "z" >>

UpperLetters == << "A", "B", "C", "D", "E", "F", "G", "H", "I", "J", "K", "L", "M", "N", "O", "P", "Q", "R", "S", "T", "U", "V", "W", "X", "Y", "Z" >>

upper_char(c) ==
    IF \E k \in 1..26 : LowerLetters[k] = c
    THEN UpperLetters[CHOOSE k \in 1..26 : LowerLetters[k] = c] ELSE c

lower_char(c) ==
    IF \E k \in 1..26 : UpperLetters[k] = c
    THEN LowerLetters[CHOOSE k \in 1..26 : UpperLetters[k] = c] ELSE c

\* str.upper(), str.lower()
upper(s) == [ k \in 1..Len(s) |-> upper_char(s[k]) ]

lower(s) == [ k \in 1..Len(s) |-> lower_char(s[k]) ]

\* int(s) as Python parses it: surrounding white space and one sign are
\* accepted; anything else raises ValueError (ok = FALSE)
parse_int(s) ==
    LET t == strip(s)
        signed == Len(t) > 0 /\ t[1] \in { "+", "-" }
        d == IF signed THEN Tail(t) ELSE t
    IN  IF isdigit(d)
        THEN [ ok |-> TRUE,
               value |-> IF signed /\ t[1] = "-" THEN 0 - int(d) ELSE int(d) ]
        ELSE [ ok |-> FALSE, value |-> 0 ]

\* round(n / d) for d # 0: to the nearest integer, a tie to the even one
round_div(n, d) ==
    LET nn == IF d < 0 THEN 0 - n ELSE n
        dd == IF d < 0 THEN 0 - d ELSE d
        q == nn \div dd
        r == nn % dd
    IN  IF 2 * r < dd THEN q
        ELSE IF 2 * r > dd THEN q + 1
        ELSE IF q % 2 = 0 THEN q ELSE q + 1

\* fps = None (line 144); a parsed frame rate of 0 is not None
NoFps == -1

T_codec_name == << "c", "o", "d", "e", "c", "_", "n", "a", "m", "e", "=" >>

T_width == << "w", "i", "d", "t", "h", "=" >>

T_height == << "h", "e", "i", "g", "h", "t", "=" >>

T_r_frame_rate == << "r", "_", "f", "r", "a", "m", "e", "_", "r", "a", "t", "e", "=" >>

T_bit_rate == << "b", "i", "t", "_", "r", "a", "t", "e", "=" >>

Unknown == << "U", "n", "k", "n", "o", "w", "n" >>

\* An external tool's run: it times out (TimeoutExpired), is not installed
\* (FileNotFoundError), or ends and leaves the lines of its standard output.
ToolTimeout == [ ended |-> "timeout", stdout |-> << >> ]

ToolMissing == [ ended |-> "missing", stdout |-> << >> ]

ToolOutput(ls) == [ ended |-> "exit", stdout |-> ls ]

\* lines 149, 151: width = int(...), height = int(...)
set_dimension(acc, field, p) ==
    IF p.ok THEN [ acc EXCEPT ![field] = p.value ]
    ELSE [ acc EXCEPT !.raised = "ValueError" ]

\* line 156: fps = round(numerator / denominator)
set_fps(acc, numerator, denominator) ==
    IF ~ numerator.ok \/ ~ denominator.ok
    THEN [ acc EXCEPT !.raised = "ValueError" ]
    ELSE IF denominator.value = 0
    THEN [ acc EXCEPT !.raised = "ZeroDivisionError" ]
    ELSE [ acc EXCEPT !.fps = round_div(numerator.value, denominator.value) ]

\* line 155: numerator, denominator = map(int, fps_data.split('/'))
unpack_rate(acc, f) ==
    IF Len(f) # 2 THEN [ acc EXCEPT !.raised = "ValueError" ]
    ELSE set_fps(acc, parse_int(f[1]), parse_int(f[2]))

\* One iteration of the loop over ffprobe's output lines (lines 145-156);
\* width and height 0 stand for None too (line 160 tests their truth)
stream_info_field(acc, line, value) ==
    IF startswith(line, T_codec_name)
    THEN [ acc EXCEPT !.codec_name = upper(value) ]
    ELSE IF startswith(line, T_width)
    THEN set_dimension(acc, "width", parse_int(value))
    ELSE IF startswith(line, T_height)
    THEN set_dimension(acc, "height", parse_int(value))
    ELSE IF Len(value) > 0 /\ contains(value, << "/" >>)
    THEN unpack_rate(acc, splitsep(value, << "/" >>))
    ELSE acc

stream_info_line(acc, line) ==
    IF \/ startswith(line, T_codec_name)
       \/ startswith(line, T_width)
       \/ startswith(line, T_height)
       \/ startswith(line, T_r_frame_rate)
    THEN stream_info_field(acc, line, splitsep(line, << "=" >>)[2])
    ELSE acc

RECURSIVE stream_info_lines(_, _)
stream_info_lines(acc, ls) ==
    IF Len(ls) = 0 \/ acc.raised # None THEN acc
    ELSE stream_info_lines(stream_info_line(acc, Head(ls)), Tail(ls))

R_4K == << "4", "K" >>

R_1080p == << "1", "0", "8", "0", "p" >>

R_720p == << "7", "2", "0", "p" >>

R_SD == << "S", "D" >>

\* Mutant of resolution_of: the thresholds are exclusive
resolution_of_strict(width, height) ==
    IF width # 0 /\ height # 0
    THEN IF width > 3840 /\ height > 2160 THEN R_4K
         ELSE IF width > 1920 /\ height > 1080 THEN R_1080p
         ELSE IF width > 1280 /\ height > 720 THEN R_720p
         ELSE R_SD
    ELSE Unknown

\* lines 159-168
resolution_of(width, height) ==
    IF width # 0 /\ height # 0
    THEN IF width >= 3840 /\ height >= 2160 THEN R_4K
         ELSE IF width >= 1920 /\ height >= 1080 THEN R_1080p
         ELSE IF width >= 1280 /\ height >= 720 THEN R_720p
         ELSE R_SD
    ELSE Unknown

\* lines 170-172
stream_info_result(p, resolution) ==
    [ raised |-> p.raised,
      video_info |->
          IF Len(p.codec_name) > 0
          THEN (IF resolution # Unknown /\ p.fps # NoFps /\ p.fps # 0
                THEN resolution \o str(p.fps) ELSE resolution)
               \o << " " >> \o p.codec_name
          ELSE Unknown,
      resolution |-> resolution,
      fps |-> p.fps ]

stream_info_parsed(p) == stream_info_result(p, resolution_of(p.width, p.height))

\* get_stream_info(url), lines 134-175, on a run of ffprobe: what it
\* returns, or in raised the exception that leaves it
get_stream_info(tool) ==
    IF tool.ended = "timeout"
    THEN [ raised |-> None, video_info |-> Unknown, resolution |-> Unknown,
           fps |-> NoFps ]
    ELSE IF tool.ended = "missing"
    THEN [ raised |-> "FileNotFoundError", video_info |-> Unknown,
           resolution |-> Unknown, fps |-> NoFps ]
    ELSE stream_info_parsed(stream_info_lines(
             [ codec_name |-> << >>, width |-> 0, height |-> 0,
               fps |-> NoFps, raised |-> None ], tool.stdout))

\* One iteration of the loop of get_audio_bitrate (lines 187-195);
\* audio_bitrate is None, an integer (kbps) or the text 'N/A'
audio_field(acc, line, value) ==
    IF startswith(line, T_bit_rate)
    THEN IF isdigit(value)
         THEN [ acc EXCEPT !.audio_bitrate =
                    [ kind |-> "int", kbps |-> int(value) \div 1000 ] ]
         ELSE [ acc EXCEPT !.audio_bitrate = [ kind |-> "N/A", kbps |-> 0 ] ]
    ELSE [ acc EXCEPT !.codec_name = upper(value) ]

audio_line(acc, line) ==
    IF startswith(line, T_bit_rate) \/ startswith(line, T_codec_name)
    THEN audio_field(acc, line, splitsep(line, << "=" >>)[2])
    ELSE acc

RECURSIVE audio_lines(_, _)
audio_lines(acc, ls) ==
    IF Len(ls) = 0 THEN acc
    ELSE audio_lines(audio_line(acc, Head(ls)), Tail(ls))

\* line 197
audio_result(p) ==
    [ raised |-> None,
      audio_info |->
          IF /\ Len(p.codec_name) > 0
             /\ \/ p.audio_bitrate.kind = "N/A"
                \/ p.audio_bitrate.kind = "int" /\ p.audio_bitrate.kbps # 0
          THEN (IF p.audio_bitrate.kind = "int"
                THEN str(p.audio_bitrate.kbps)
                ELSE << "N", "/", "A" >>)
               \o << " ", "k", "b", "p", "s", " " >> \o p.codec_name
          ELSE Unknown ]

\* get_audio_bitrate(url), lines 177-200
get_audio_bitrate(tool) ==
    IF tool.ended = "timeout"
    THEN [ raised |-> None, audio_info |-> Unknown ]
    ELSE IF tool.ended = "missing"
    THEN [ raised |-> "FileNotFoundError", audio_info |-> Unknown ]
    ELSE audio_result(audio_lines(
             [ audio_bitrate |-> [ kind |-> "None", kbps |-> 0 ],
               codec_name |-> << >> ], tool.stdout))

\* capture_frame(url, output_path, file_name), lines 120-131: the exception
\* that leaves it, if any (its return value is not used)
capture_frame(tool) ==
    IF tool.ended = "missing" THEN "FileNotFoundError" ELSE None

\* lines 208-218 on channel_name_lower: the list of findings, each the
\* expectation that failed and the resolution measured
label_findings(channel_name_lower, resolution) ==
    IF \/ contains(channel_name_lower, << "4", "k" >>)
       \/ contains(channel_name_lower, << "u", "h", "d" >>)
    THEN IF resolution # R_4K
         THEN << [ expected |-> "4K", got |-> resolution ] >>
         ELSE << >>
    ELSE IF \/ contains(channel_name_lower, << "1", "0", "8", "0", "p" >>)
            \/ contains(channel_name_lower, << "f", "h", "d" >>)
    THEN IF resolution # R_1080p
         THEN << [ expected |-> "1080p", got |-> resolution ] >>
         ELSE << >>
    ELSE IF contains(channel_name_lower, << "h", "d" >>)
    THEN IF resolution \notin { R_1080p, R_720p }
         THEN << [ expected |-> "720p or 1080p", got |-> resolution ] >>
         ELSE << >>
    ELSE IF resolution = R_4K
    THEN << [ expected |-> "4K label", got |-> resolution ] >>
    ELSE << >>

\* Mutant of check_label_mismatch: the name is matched as it is written
check_label_mismatch_as_written(channel_name, resolution) ==
    label_findings(channel_name, resolution)

\* check_label_mismatch(channel_name, resolution), lines 202-220
check_label_mismatch(channel_name, resolution) ==
    label_findings(lower(channel_name), resolution)

-----------------------------------------------------------------------------
(***************************************************************************)
(* Run orchestrator: parse_m3u8_file, lines 259-395.                       *)
(***************************************************************************)

EXTINF == << "#", "E", "X", "T", "I", "N", "F" >>

EXTM3U == << "#", "E", "X", "T", "M", "3", "U" >>

UnknownChannel == << "U", "n", "k", "n", "o", "w", "n", " ", "C", "h", "a", "n", "n", "e", "l" >>

\* lines 281, 289, 303: a metadata line that passes the group filter
is_entry_line(line, group) ==
    /\ startswith(line, EXTINF)
    /\ (IF Len(group) > 0 THEN contains(line, group) ELSE TRUE)

\* lines 291, 306
channel_name_of(line) ==
    IF contains(line, << "," >>)
    THEN strip(split1(line, << "," >>)[2]) ELSE UnknownChannel

\* line 307: f"{channel_name} {next_line}"
identifier_of(channel_name, next_line) ==
    channel_name \o << " " >> \o next_line

\* Mutant of already_processed: the set is not consulted
already_processed_never(identifier, processed) == FALSE

\* line 308: the entry is handed to the prober only if this is false
already_processed(identifier, processed) == identifier \in processed

\* line 281
count_channels(ls, group) ==
    Cardinality({ k \in 1..Len(ls) : is_entry_line(ls[k], group) })

\* lines 328-331
replace_name(line, extinf_parts, renamed_channel_name) ==
    IF Len(extinf_parts) > 1
    THEN extinf_parts[1] \o << "," >> \o renamed_channel_name
    ELSE line

last_word(words) == words[Len(words)]

\* lines 327-331: the metadata line with the measured profile in its name
renamed_line(line, channel_name, resolution, video_info, audio_info) ==
    replace_name(line, split1(line, << "," >>),
        channel_name \o << " ", "(" >> \o resolution \o << " " >>
        \o last_word(splitws(video_info)) \o << " ", "|", " " >>
        \o audio_info \o << ")" >>)

\* Mutant of entry_lines: the list is written from its last entry to its
\* first
RECURSIVE entry_lines_reversed(_)
entry_lines_reversed(entries) ==
    IF Len(entries) = 0 THEN << >>
    ELSE entry_lines_reversed(Tail(entries))
         \o << Head(entries)[1], Head(entries)[2] >>

\* lines 356-360, 362-365, 370-373: the lines written to an output catalogue
RECURSIVE entry_lines(_)
entry_lines(entries) ==
    IF Len(entries) = 0 THEN << >>
    ELSE << Head(entries)[1], Head(entries)[2] >> \o entry_lines(Tail(entries))

\* The entry the loop is at: lines[i] is a metadata line passing the filter
\* and a line follows it (lines 302-307)
Lines == playlist.lines

AtEntry ==
    /\ i < Len(Lines)
    /\ is_entry_line(strip(Lines[i + 1]), group_title)
    /\ i + 1 < Len(Lines)

CurLine == strip(Lines[i + 1])

NextLine == strip(Lines[i + 2])

CurName == channel_name_of(CurLine)

CurIdentifier == identifier_of(CurName, NextLine)

\* lines 260-273
StartRun ==
    /\ pc = "start"
    /\ LET loaded == load_processed_channels(log_file)
       IN  /\ processed_channels' = loaded.processed_channels
           /\ last_index' = loaded.last_index
           /\ current_channel' = loaded.last_index
           /\ loaded_channels' = loaded.processed_channels
    /\ mislabeled_channels' = << >>
    /\ low_framerate_channels' = << >>
    /\ working_channels' = << >>
    /\ dead_channels' = << >>
    /\ pc' = "open"
    /\ UNCHANGED << total_channels, i, status, renamed_lines, console,
                    findings_printed >>
    /\ UNCHANGED << call_vars, args_vars, disk_vars, probe_vars >>
    /\ UNCHANGED << log_records, probed, classified, completed, run >>

\* line 279 raises FileNotFoundError, caught at lines 392-393
PlaylistNotFound ==
    /\ pc = "open"
    /\ ~ playlist.exists
    /\ pc' = "aborted"
    /\ UNCHANGED << processed_channels, last_index, current_channel,
                    total_channels, i, status, working_channels,
                    dead_channels, renamed_lines, mislabeled_channels,
                    low_framerate_channels, console, findings_printed >>
    /\ UNCHANGED << call_vars, args_vars, disk_vars, probe_vars, history_vars >>

\* lines 279-300
ReadPlaylist ==
    /\ pc = "open"
    /\ playlist.exists
    /\ total_channels' = count_channels(Lines, group_title)
    /\ renamed_lines' = << >>
    /\ i' = 0
    /\ pc' = "loop"
    /\ UNCHANGED << processed_channels, last_index, current_channel, status,
                    working_channels, dead_channels, mislabeled_channels,
                    low_framerate_channels, console, findings_printed >>
    /\ UNCHANGED << call_vars, args_vars, disk_vars, probe_vars, history_vars >>

\* lines 345-351: a line that starts no entry is kept as it is
KeepLine ==
    /\ pc = "loop"
    /\ i < Len(Lines)
    /\ ~ AtEntry
    /\ renamed_lines' = Append(renamed_lines, CurLine)
    /\ i' = i + 1
    /\ UNCHANGED << pc, processed_channels, last_index, current_channel,
                    total_channels, status, working_channels, dead_channels,
                    mislabeled_channels, low_framerate_channels, console,
                    findings_printed >>
    /\ UNCHANGED << call_vars, args_vars, disk_vars, probe_vars, history_vars >>

\* Mutant of SkipEntry: a skipped entry is counted
SkipEntry_counted ==
    /\ pc = "loop"
    /\ AtEntry
    /\ already_processed(CurIdentifier, processed_channels)
    /\ current_channel' = current_channel + 1
    /\ renamed_lines' = renamed_lines \o << CurLine, NextLine >>
    /\ i' = i + 2
    /\ UNCHANGED << pc, processed_channels, last_index, total_channels,
                    status, working_channels, dead_channels,
                    mislabeled_channels, low_framerate_channels, console,
                    findings_printed >>
    /\ UNCHANGED << call_vars, args_vars, disk_vars, probe_vars,
                    history_vars >>

\* lines 308, 341-344, 351: an entry whose identifier is in the set
SkipEntry ==
    /\ pc = "loop"
    /\ AtEntry
    /\ already_processed(CurIdentifier, processed_channels)
    /\ renamed_lines' = renamed_lines \o << CurLine, NextLine >>
    /\ i' = i + 2
    /\ UNCHANGED << pc, processed_channels, last_index, current_channel,
                    total_channels, status, working_channels, dead_channels,
                    mislabeled_channels, low_framerate_channels, console,
                    findings_printed >>
    /\ UNCHANGED << call_vars, args_vars, disk_vars, probe_vars, history_vars >>

\* lines 308-310: the entry is probed; an exception leaving
\* check_channel_status is caught at lines 394-395, outside the loop
ProbeEntry(identifier, next_line, st) ==
    /\ ~ already_processed(identifier, processed_channels)
    /\ current_channel' = current_channel + 1
    /\ probed' = Append(probed, [ identifier |-> identifier,
                                  url |-> next_line, i |-> i ])
    /\ IF st = "raise"
       THEN /\ pc' = "aborted"
            /\ UNCHANGED status
       ELSE /\ pc' = "probed"
            /\ status' = st

Probe(server, outcome) ==
    /\ pc = "loop"
    /\ AtEntry
    /\ ProbeEntry(CurIdentifier, NextLine,
                  check_channel_status(NextLine, extended_timeout, server,
                                       outcome))
    /\ UNCHANGED << processed_channels, last_index, total_channels, i,
                    working_channels, dead_channels, renamed_lines,
                    mislabeled_channels, low_framerate_channels, console,
                    findings_printed >>
    /\ UNCHANGED << call_vars, args_vars, disk_vars, probe_vars >>
    /\ UNCHANGED << log_records, classified, completed, run, loaded_channels >>

\* Mutant of FinishEntry: the identifier is not added to the set
FinishEntry_not_marked(line, next_line, channel_name, identifier, video_info, audio_info) ==
    /\ console' = Append(console,
           [ current_channel |-> current_channel,
             total_channels |-> total_channels,
             channel_name |-> channel_name,
             status |-> status,
             video_info |-> video_info,
             audio_info |-> audio_info ])
    /\ UNCHANGED processed_channels
    /\ classified' = Append(classified,
           [ identifier |-> identifier, status |-> status,
             line |-> line, url |-> next_line, i |-> i,
             current_channel |-> current_channel ])
    /\ renamed_lines' = renamed_lines \o << line, next_line >>
    /\ i' = i + 2
    /\ pc' = "loop"

\* lines 338-344, 351: the entry is reported and marked processed, and the
\* loop moves past its two lines
FinishEntry(line, next_line, channel_name, identifier, video_info, audio_info) ==
    /\ console' = Append(console,
           [ current_channel |-> current_channel,
             total_channels |-> total_channels,
             channel_name |-> channel_name,
             status |-> status,
             video_info |-> video_info,
             audio_info |-> audio_info ])
    /\ processed_channels' = processed_channels \cup { identifier }
    /\ classified' = Append(classified,
           [ identifier |-> identifier, status |-> status,
             line |-> line, url |-> next_line, i |-> i,
             current_channel |-> current_channel ])
    /\ renamed_lines' = renamed_lines \o << line, next_line >>
    /\ i' = i + 2
    /\ pc' = "loop"

\* Mutant of ClassifyDead: the entry is not put on the dead list
ClassifyDead_not_listed(line, next_line, channel_name, identifier) ==
    /\ FinishEntry(line, next_line, channel_name, identifier, Unknown,
                   Unknown)
    /\ UNCHANGED << working_channels, dead_channels, mislabeled_channels,
                    low_framerate_channels >>

\* lines 335-337: a dead entry
ClassifyDead(line, next_line, channel_name, identifier) ==
    /\ dead_channels' = IF split
                        THEN Append(dead_channels, << line, next_line >>)
                        ELSE dead_channels
    /\ FinishEntry(line, next_line, channel_name, identifier, Unknown,
                   Unknown)
    /\ UNCHANGED << working_channels, mislabeled_channels,
                    low_framerate_channels >>

\* lines 317-334: an alive entry, profiled without an exception
ClassifyAlive(line, renamed, next_line, channel_name, identifier, video, audio, mismatches) ==
    /\ low_framerate_channels' =
           IF video.fps # NoFps /\ video.fps <= 30
           THEN Append(low_framerate_channels,
                       [ current_channel |-> current_channel,
                         total_channels |-> total_channels,
                         channel_name |-> channel_name,
                         fps |-> video.fps ])
           ELSE low_framerate_channels
    /\ mislabeled_channels' =
           IF Len(mismatches) > 0
           THEN Append(mislabeled_channels,
                       [ current_channel |-> current_channel,
                         total_channels |-> total_channels,
                         channel_name |-> channel_name,
                         mismatches |-> mismatches ])
           ELSE mislabeled_channels
    /\ working_channels' =
           IF split
           THEN Append(working_channels,
                       << IF rename THEN renamed ELSE line, next_line >>)
           ELSE working_channels
    /\ FinishEntry(IF rename THEN renamed ELSE line, next_line,
                   channel_name, identifier, video.video_info,
                   audio.audio_info)
    /\ UNCHANGED dead_channels

\* lines 311-344: the probed entry is profiled and classified; an exception
\* leaving a tool call is caught at lines 394-395, outside the loop
ClassifyEntry(line, next_line, channel_name, identifier, video, audio, captured) ==
    IF status # "Alive"
    THEN ClassifyDead(line, next_line, channel_name, identifier)
    ELSE IF video.raised # None \/ audio.raised # None \/ captured # None
    THEN /\ pc' = "aborted"
         /\ UNCHANGED << processed_channels, i, working_channels,
                         dead_channels, renamed_lines, mislabeled_channels,
                         low_framerate_channels, console, classified >>
    ELSE ClassifyAlive(line,
             renamed_line(line, channel_name, video.resolution,
                          video.video_info, audio.audio_info),
             next_line, channel_name, identifier, video, audio,
             check_label_mismatch(channel_name, video.resolution))

Classify(tools) ==
    /\ pc = "probed"
    /\ ClassifyEntry(CurLine, NextLine, CurName, CurIdentifier,
                     get_stream_info(tools.video),
                     get_audio_bitrate(tools.audio),
                     capture_frame(tools.capture))
    /\ UNCHANGED << last_index, current_channel, total_channels, status,
                    findings_printed >>
    /\ UNCHANGED << call_vars, args_vars, disk_vars, probe_vars >>
    /\ UNCHANGED << log_records, probed, completed, run, loaded_channels >>

\* lines 353-390: the end of the run
\* Mutant of writes_renamed: the renamed playlist is never written
writes_renamed_never(sp, rn) == FALSE

\* lines 353, 368: "if split: ... elif rename:"
writes_renamed(sp, rn) == ~ sp /\ rn

Emit ==
    /\ pc = "loop"
    /\ i >= Len(Lines)
    /\ IF split
       THEN /\ working_playlist' =
                   File(<< EXTM3U >> \o entry_lines(working_channels))
            /\ dead_playlist' =
                   File(<< EXTM3U >> \o entry_lines(dead_channels))
            /\ UNCHANGED renamed_playlist
       ELSE IF writes_renamed(split, rename)
       THEN /\ renamed_playlist' = File(<< EXTM3U >> \o renamed_lines)
            /\ UNCHANGED << working_playlist, dead_playlist >>
       ELSE UNCHANGED << working_playlist, dead_playlist, renamed_playlist >>
    /\ findings_printed' = [ low_framerate |-> low_framerate_channels,
                             mislabeled |-> mislabeled_channels ]
    /\ pc' = "done"
    /\ UNCHANGED << processed_channels, last_index, current_channel,
                    total_channels, i, status, working_channels,
                    dead_channels, renamed_lines, mislabeled_channels,
                    low_framerate_channels, console >>
    /\ UNCHANGED << call_vars, args_vars, log_file, probe_vars, history_vars >>

\* lines 33-37: SIGINT ends the process (sys.exit raises SystemExit, which
\* "except Exception" does not catch); what the process held in memory is
\* gone, what it printed and wrote stays
handle_sigint ==
    /\ pc \in { "start", "open", "loop", "probed" }
    /\ pc' = "exited"
    /\ processed_channels' = {}
    /\ last_index' = 0
    /\ current_channel' = 0
    /\ total_channels' = 0
    /\ i' = 0
    /\ status' = None
    /\ working_channels' = << >>
    /\ dead_channels' = << >>
    /\ renamed_lines' = << >>
    /\ mislabeled_channels' = << >>
    /\ low_framerate_channels' = << >>
    /\ UNCHANGED << console, findings_printed >>
    /\ UNCHANGED << call_vars, args_vars, disk_vars, probe_vars, history_vars >>

\* What lines 356-365 and 370-373 write, one write call per line
working_text == << EXTM3U >> \o entry_lines(working_channels)

dead_text == << EXTM3U >> \o entry_lines(dead_channels)

renamed_text == << EXTM3U >> \o renamed_lines

\* The first n lines of text
written(text, n) == SubSeq(text, 1, n)

\* lines 33-37 with the process at lines 353-374: SIGINT arrives when n
\* lines have been written since the first output file was opened.
\* sys.exit raises SystemExit between two statements; the "with" block
\* closes the file that is open with the lines written so far, and a file
\* not yet opened is not touched. With split, the working playlist is
\* opened and written first; the dead playlist is opened once the working
\* playlist is closed.
handle_sigint_writing(n) ==
    /\ pc = "loop"
    /\ i >= Len(Lines)
    /\ IF split
       THEN /\ n <= Len(working_text) + Len(dead_text)
            /\ working_playlist' =
                   File(written(working_text,
                                IF n < Len(working_text)
                                THEN n ELSE Len(working_text)))
            /\ dead_playlist' =
                   IF n < Len(working_text)
                   THEN dead_playlist
                   ELSE File(written(dead_text, n - Len(working_text)))
            /\ UNCHANGED renamed_playlist
       ELSE /\ writes_renamed(split, rename)
            /\ n <= Len(renamed_text)
            /\ renamed_playlist' = File(written(renamed_text, n))
            /\ UNCHANGED << working_playlist, dead_playlist >>
    /\ pc' = "exited"
    /\ processed_channels' = {}
    /\ last_index' = 0
    /\ current_channel' = 0
    /\ total_channels' = 0
    /\ i' = 0
    /\ status' = None
    /\ working_channels' = << >>
    /\ dead_channels' = << >>
    /\ renamed_lines' = << >>
    /\ mislabeled_channels' = << >>
    /\ low_framerate_channels' = << >>
    /\ UNCHANGED << console, findings_printed >>
    /\ UNCHANGED << call_vars, args_vars, log_file, probe_vars, history_vars >>

-----------------------------------------------------------------------------
(***************************************************************************)
(* The environment: catalogues, checkpoint files, servers, tools.          *)
(***************************************************************************)

\* Bounds
MaxLines == 4

MaxRuns == 2

MaxLogLines == 3

\* Catalogue lines: two metadata lines (groups g and h, names a and b) and
\* a URL line
Line_a == << "#", "E", "X", "T", "I", "N", "F", ":", "g", ",", "a" >>

Line_b == << "#", "E", "X", "T", "I", "N", "F", ":", "h", ",", "b" >>

Line_u == << "u" >>

PlaylistLines == { Line_a, Line_b, Line_u }

Playlists ==
    { NoFile } \cup { File(ls) : ls \in SeqsUpTo(PlaylistLines, MaxLines) }

GroupTitles == { << >>, << "g" >> }

ExtendedTimeouts == { 0, 15 }

\* A checkpoint record in the documented format
\* "<sequenceIndex>/<total> <otherFields> - <identifier> - <rest>", or a raw
\* line that does not follow it
FormatRecord(r) ==
    IF r.wellformed
    THEN str(r.sequenceIndex) \o << "/" >> \o str(r.total) \o << " " >>
         \o r.other \o << " ", "-", " " >> \o r.identifier
         \o << " ", "-", " " >> \o r.rest
    ELSE r.raw

Record(n, total, identifier) ==
    [ wellformed |-> TRUE, sequenceIndex |-> n, total |-> total,
      other |-> << "x" >>, identifier |-> identifier, rest |-> << "r" >>,
      raw |-> << >> ]

RawLine(text) ==
    [ wellformed |-> FALSE, sequenceIndex |-> 0, total |-> 0,
      other |-> << >>, identifier |-> << >>, rest |-> << >>, raw |-> text ]

Id_a_u == identifier_of(<< "a" >>, Line_u)

Id_b_u == identifier_of(<< "b" >>, Line_u)

\* A line whose first word is a plain integer: "3 - b u"
PlainIndexLine == << "3", " ", "-", " " >> \o Id_b_u

LoadRecords ==
    { Record(n, 12, id) : n \in { 1, 2, 12 }, id \in { Id_a_u, Id_b_u } }
    \cup { RawLine(<< "j", "u", "n", "k" >>), RawLine(<< >>),
           RawLine(PlainIndexLine) }

RenderLog(records) == [ k \in 1..Len(records) |-> FormatRecord(records[k]) ]

\* The servers the orchestrator's entries are probed against
Body(chunks) == [ chunks |-> chunks, end |-> "eof" ]

Http(code, ctype, body) ==
    [ raises |-> None, status_code |-> code, content_type |-> ctype,
      body |-> body ]

Refused ==
    [ raises |-> "ConnectionError", status_code |-> 0,
      content_type |-> << >>, body |-> NoBody ]

RateLimited == Http(429, << >>, NoBody)

Streams == Http(200, video_mp2t, Body(<< 600000 >>))

StreamsShort == Http(200, video_mp2t, Body(<< 200000 >>))

\* A server answers the requests of a probe with prefix, then with tail for
\* ever
Servers ==
    { [ prefix |-> << >>, tail |-> Refused ],
      [ prefix |-> << >>, tail |-> RateLimited ],
      [ prefix |-> << >>, tail |-> Streams ],
      [ prefix |-> << RateLimited >>, tail |-> Streams ],
      [ prefix |-> << >>, tail |-> StreamsShort ] }

\* The runs of ffprobe and of the frame capture on an entry
V_1080p25 ==
    << << "c", "o", "d", "e", "c", "_", "n", "a", "m", "e", "=", "h", "2", "6", "4" >>,
       << "w", "i", "d", "t", "h", "=", "1", "9", "2", "0" >>,
       << "h", "e", "i", "g", "h", "t", "=", "1", "0", "8", "0" >>,
       << "r", "_", "f", "r", "a", "m", "e", "_", "r", "a", "t", "e", "=", "2", "5", "/", "1" >> >>

V_4K50 ==
    << << "c", "o", "d", "e", "c", "_", "n", "a", "m", "e", "=", "h", "e", "v", "c" >>,
       << "w", "i", "d", "t", "h", "=", "3", "8", "4", "0" >>,
       << "h", "e", "i", "g", "h", "t", "=", "2", "1", "6", "0" >>,
       << "r", "_", "f", "r", "a", "m", "e", "_", "r", "a", "t", "e", "=", "5", "0", "/", "1" >> >>

V_zero_rate ==
    << << "c", "o", "d", "e", "c", "_", "n", "a", "m", "e", "=", "h", "2", "6", "4" >>,
       << "w", "i", "d", "t", "h", "=", "1", "9", "2", "0" >>,
       << "h", "e", "i", "g", "h", "t", "=", "1", "0", "8", "0" >>,
       << "r", "_", "f", "r", "a", "m", "e", "_", "r", "a", "t", "e", "=", "0", "/", "0" >> >>

V_not_a_number ==
    << << "c", "o", "d", "e", "c", "_", "n", "a", "m", "e", "=", "h", "2", "6", "4" >>,
       << "w", "i", "d", "t", "h", "=", "N", "/", "A" >>,
       << "h", "e", "i", "g", "h", "t", "=", "N", "/", "A" >> >>

A_aac ==
    << << "c", "o", "d", "e", "c", "_", "n", "a", "m", "e", "=", "a", "a", "c" >>,
       << "b", "i", "t", "_", "r", "a", "t", "e", "=", "1", "2", "8", "0", "0", "0" >> >>

ToolRuns ==
    { [ video |-> ToolOutput(V_1080p25), audio |-> ToolOutput(A_aac),
        capture |-> ToolOutput(<< >>) ],
      [ video |-> ToolOutput(V_4K50), audio |-> ToolOutput(A_aac),
        capture |-> ToolOutput(<< >>) ],
      [ video |-> ToolTimeout, audio |-> ToolTimeout,
        capture |-> ToolTimeout ],
      [ video |-> ToolOutput(V_zero_rate), audio |-> ToolOutput(A_aac),
        capture |-> ToolOutput(<< >>) ],
      [ video |-> ToolOutput(V_not_a_number), audio |-> ToolOutput(<< >>),
        capture |-> ToolOutput(<< >>) ],
      [ video |-> ToolOutput(V_1080p25), audio |-> ToolOutput(A_aac),
        capture |-> ToolMissing ] }

-----------------------------------------------------------------------------
(***************************************************************************)
(* Specifications.                                                         *)
(***************************************************************************)

\* The locals of parse_m3u8_file before a run
RunIdle ==
    /\ pc = "start"
    /\ processed_channels = {}
    /\ last_index = 0
    /\ current_channel = 0
    /\ total_channels = 0
    /\ i = 0
    /\ status = None
    /\ working_channels = << >>
    /\ dead_channels = << >>
    /\ renamed_lines = << >>
    /\ mislabeled_channels = << >>
    /\ low_framerate_channels = << >>
    /\ console = << >>
    /\ findings_printed = [ low_framerate |-> << >>, mislabeled |-> << >> ]

\* No probe is being stepped
ProbeIdle ==
    /\ ppc = "idle"
    /\ url = << >>
    /\ current_timeout = 0
    /\ attempt = 0
    /\ accumulated_data = 0
    /\ pstatus = None
    /\ requests = << >>
    /\ slept = 0
    /\ phases = << >>
    /\ ffmpeg_runs = << >>

\* No function is called on its own
NoCall == [ fn |-> "none" ]

CallIdle ==
    /\ call = NoCall
    /\ returned = << >>

HistoryIdle ==
    /\ probed = << >>
    /\ classified = << >>
    /\ completed = {}
    /\ loaded_channels = {}
    /\ run = 1

NoOutputs ==
    /\ working_playlist = NoFile
    /\ dead_playlist = NoFile
    /\ renamed_playlist = NoFile

\* ---- one run of the orchestrator
Init ==
    /\ playlist \in Playlists
    /\ group_title \in GroupTitles
    /\ extended_timeout \in ExtendedTimeouts
    /\ split \in BOOLEAN
    /\ rename \in BOOLEAN
    /\ log_records \in { << >>, << Record(1, 2, Id_a_u) >> }
    /\ log_file = IF log_records = << >> THEN NoFile
                  ELSE File(RenderLog(log_records))
    /\ NoOutputs
    /\ RunIdle
    /\ ProbeIdle
    /\ HistoryIdle
    /\ CallIdle

\* The program is started again, on the same catalogue and checkpoint file
NextRun ==
    /\ pc \in { "done", "aborted", "exited" }
    /\ run < MaxRuns
    /\ run' = run + 1
    /\ completed' = completed \cup { classified[k].identifier :
                                       k \in 1..Len(classified) }
    /\ probed' = << >>
    /\ classified' = << >>
    /\ loaded_channels' = {}
    /\ pc' = "start"
    /\ processed_channels' = {}
    /\ last_index' = 0
    /\ current_channel' = 0
    /\ total_channels' = 0
    /\ i' = 0
    /\ status' = None
    /\ working_channels' = << >>
    /\ dead_channels' = << >>
    /\ renamed_lines' = << >>
    /\ mislabeled_channels' = << >>
    /\ low_framerate_channels' = << >>
    /\ console' = << >>
    /\ findings_printed' = [ low_framerate |-> << >>, mislabeled |-> << >> ]
    /\ UNCHANGED log_records
    /\ UNCHANGED << call_vars, args_vars, disk_vars, probe_vars >>

Next ==
    \/ StartRun
    \/ PlaylistNotFound
    \/ ReadPlaylist
    \/ KeepLine
    \/ SkipEntry
    \/ \E server \in Servers, outcome \in FfmpegOutcomes :
           Probe(server, outcome)
    \/ \E tools \in ToolRuns : Classify(tools)
    \/ Emit
    \/ handle_sigint

Spec == Init /\ [][Next]_vars

\* ---- one run, SIGINT arriving also while the output files are written
NextInterrupt ==
    \/ Next
    \/ \E n \in 0..(MaxLines + 2) : handle_sigint_writing(n)

SpecInterrupt == Init /\ [][NextInterrupt]_vars

\* ---- one call of check_label_mismatch or of get_stream_info
LabelNames ==
    { << "4", "K" >>,
      << "U", "h", "d" >>,
      << "F", "H", "D" >>,
      << "1", "0", "8", "0", "P" >>,
      << "H", "D" >>,
      << "h", "d", " ", "4", "k" >>,
      << "s", "d" >>,
      << "a" >>,
      << "1", "0", "8", "0" >>,
      << "x", "4", "K", "y" >>,
      << "U", "H", "D", "1", "0", "8", "0", "p" >>,
      << "L", "o", "c", "a", "l", " ", "S", "D" >>,
      << "f", "h", "d", " ", "h", "d" >> }

Resolutions == { R_4K, R_1080p, R_720p, R_SD, Unknown }

LabelCalls ==
    [ fn : { "check_label_mismatch" }, channel_name : LabelNames,
      resolution : Resolutions ]

\* line 317: mismatches = check_label_mismatch(channel_name, resolution)
CallCheckLabelMismatch ==
    /\ call.fn = "check_label_mismatch"
    /\ returned = << >>
    /\ returned' = << check_label_mismatch(call.channel_name,
                                           call.resolution) >>
    /\ UNCHANGED << call, args_vars, disk_vars, run_vars, probe_vars,
                    history_vars >>

\* The widths and heights ffprobe reports: the thresholds of lines 161-165,
\* their neighbours, and values below and above all of them
Widths == { 0, 640, 1279, 1280, 1919, 1920, 3839, 3840, 4096 }

Heights == { 0, 480, 719, 720, 1079, 1080, 2159, 2160 }

StreamInfoCalls ==
    [ fn : { "get_stream_info" }, ended : { "exit" }, width : Widths,
      height : Heights, has_width : BOOLEAN, has_height : BOOLEAN ]
    \cup [ fn : { "get_stream_info" }, ended : { "timeout" }, width : { 0 },
           height : { 0 }, has_width : { FALSE }, has_height : { FALSE } ]

\* The run of ffprobe a call of get_stream_info sees (lines 140-141)
FfprobeRun(c) ==
    IF c.ended = "timeout" THEN ToolTimeout
    ELSE ToolOutput(
             << T_codec_name \o << "h", "2", "6", "4" >> >>
             \o (IF c.has_width THEN << T_width \o str(c.width) >>
                 ELSE << >>)
             \o (IF c.has_height THEN << T_height \o str(c.height) >>
                 ELSE << >>))

\* line 315: video_info, resolution, fps = get_stream_info(next_line)
CallGetStreamInfo ==
    /\ call.fn = "get_stream_info"
    /\ returned = << >>
    /\ returned' = << get_stream_info(FfprobeRun(call)) >>
    /\ UNCHANGED << call, args_vars, disk_vars, run_vars, probe_vars,
                    history_vars >>

InitCall ==
    /\ playlist = NoFile
    /\ group_title = << >>
    /\ extended_timeout = 0
    /\ split = FALSE
    /\ rename = FALSE
    /\ log_records = << >>
    /\ log_file = NoFile
    /\ NoOutputs
    /\ RunIdle
    /\ ProbeIdle
    /\ HistoryIdle
    /\ call \in LabelCalls \cup StreamInfoCalls
    /\ returned = << >>

NextCall ==
    \/ CallCheckLabelMismatch
    \/ CallGetStreamInfo

SpecCall == InitCall /\ [][NextCall]_vars

\* ---- one run, on a checkpoint file that gives a resume counter
InitNumbering ==
    /\ playlist \in Playlists
    /\ group_title \in GroupTitles
    /\ extended_timeout = 0
    /\ split = FALSE
    /\ rename = FALSE
    /\ log_records \in { << >>, << Record(1, 2, Id_a_u) >>,
                         << RawLine(PlainIndexLine) >>,
                         << RawLine(PlainIndexLine), Record(1, 2, Id_a_u) >> }
    /\ log_file = IF log_records = << >> THEN NoFile
                  ELSE File(RenderLog(log_records))
    /\ NoOutputs
    /\ RunIdle
    /\ ProbeIdle
    /\ HistoryIdle
    /\ CallIdle

SpecNumbering == InitNumbering /\ [][Next]_vars

\* ---- successive runs on the same catalogue and checkpoint file
InitResume ==
    /\ playlist \in Playlists
    /\ group_title = << >>
    /\ extended_timeout = 0
    /\ split = FALSE
    /\ rename = FALSE
    /\ log_records \in { << >>, << Record(1, 2, Id_a_u) >> }
    /\ log_file = IF log_records = << >> THEN NoFile
                  ELSE File(RenderLog(log_records))
    /\ NoOutputs
    /\ RunIdle
    /\ ProbeIdle
    /\ HistoryIdle
    /\ CallIdle

NextResume ==
    \/ Next
    \/ NextRun

SpecResume == InitResume /\ [][NextResume]_vars

\* ---- load_processed_channels on a bounded set of checkpoint files
InitLoad ==
    /\ playlist = NoFile
    /\ group_title = << >>
    /\ extended_timeout = 0
    /\ split = FALSE
    /\ rename = FALSE
    /\ log_records \in SeqsUpTo(LoadRecords, MaxLogLines)
    /\ log_file \in { File(RenderLog(log_records)) }
                    \cup (IF log_records = << >> THEN { NoFile } ELSE {})
    /\ NoOutputs
    /\ RunIdle
    /\ ProbeIdle
    /\ HistoryIdle
    /\ CallIdle

SpecLoad == InitLoad /\ [][StartRun]_vars

\* ---- check_channel_status step by step, against any server
InitProbe ==
    /\ playlist = NoFile
    /\ group_title = << >>
    /\ extended_timeout \in ExtendedTimeouts
    /\ split = FALSE
    /\ rename = FALSE
    /\ log_records = << >>
    /\ log_file = NoFile
    /\ NoOutputs
    /\ RunIdle
    /\ HistoryIdle
    /\ CallIdle
    /\ ppc = "base"
    /\ url \in { Line_u, Line_u \o dot_ts }
    /\ current_timeout = BaseTimeout
    /\ attempt = 0
    /\ accumulated_data = 0
    /\ pstatus = None
    /\ requests = << >>
    /\ slept = 0
    /\ phases = << >>
    /\ ffmpeg_runs = << >>

NextProbe ==
    \/ \E resp \in Responses : Request(resp)
    \/ MaxRetriesExceeded
    \/ Escalate
    \/ NoEscalate
    \/ \E outcome \in FfmpegOutcomes : Verify(outcome)
    \/ ReturnDead

SpecProbe == InitProbe /\ [][NextProbe]_vars

\* Every step of the prober is bounded by a timeout (the connect and read
\* timeouts of line 51, the sleep of line 55, timeout=15 at line 109), so a
\* step that can be taken is taken.
SpecProbeFair == SpecProbe /\ WF_vars(NextProbe)

-----------------------------------------------------------------------------
(***************************************************************************)
(* Properties.                                                             *)
(***************************************************************************)

\* A phase of the prober has returned; requests, slept and the last element
\* of phases describe it
PhaseDone == ppc \in { "base_done", "verify", "returned", "raised" }

LastPhase == phases[Len(phases)]

AllRequests(class) == \A j \in 1..Len(requests) : requests[j] = class

\* the identifier field of a checkpoint line, as the documented format has it
IdentifierField(line) == splitsep(strip(line), << " ", "-", " " >>)[2]

\* C1: an entry whose identifier is in the set the checkpoint load returns
\* at the start of the run is never handed to the prober in that run.
C1_CheckpointedNeverProbed ==
    \A k \in 1..Len(probed) : probed[k].identifier \notin loaded_channels

\* C1 witness: a run over two entries, the first in the loaded set, has
\* ended having probed the second only.
C1_Witness ==
    /\ pc = "done"
    /\ Lines = << Line_a, Line_u, Line_b, Line_u >>
    /\ group_title = << >>
    /\ Id_a_u \in loaded_channels
    /\ Len(probed) = 1
    /\ probed[1].identifier = Id_b_u

\* C2 (as claimed): when a run completes, the checkpoint file holds its
\* previous records followed by one record per entry processed in the run,
\* the k-th carrying the identifier of the k-th processed entry.
C2_LogGrowsByOnePerEntry ==
    pc = "done" =>
        /\ Len(log_file.lines) = Len(log_records) + Len(classified)
        /\ SubSeq(log_file.lines, 1, Len(log_records)) = RenderLog(log_records)
        /\ \A k \in 1..Len(classified) :
               IdentifierField(log_file.lines[Len(log_records) + k])
                   = classified[k].identifier

\* C3 (as claimed): an entry whose processing completed in an earlier run is
\* not probed again in a later run on the same catalogue and checkpoint file.
C3_CompletedNotProbedAgain ==
    \A k \in 1..Len(probed) : probed[k].identifier \notin completed

\* C4 (as claimed): for a checkpoint file whose records all follow the
\* documented format, load returns the maximum sequenceIndex as resume
\* counter and the set of the records' identifier fields as processed set.
RECURSIVE MaxSequenceIndex(_)
MaxSequenceIndex(records) ==
    IF Len(records) = 0 THEN 0
    ELSE Max(Head(records).sequenceIndex, MaxSequenceIndex(Tail(records)))

AllWellFormed == \A k \in 1..Len(log_records) : log_records[k].wellformed

C4_LoadDocumentedFormat ==
    (pc = "open" /\ log_file.exists /\ AllWellFormed) =>
        /\ last_index = MaxSequenceIndex(log_records)
        /\ processed_channels =
               { log_records[k].identifier : k \in 1..Len(log_records) }

\* C5: a phase answered 429 exactly k times (k < retries) and then 200 with
\* a qualifying content type and at least the minimum number of bytes has
\* returned Alive after exactly k + 1 requests, having slept k times 2 s.
C5_RateLimitedThenAlive ==
    \A k \in 0..(retries - 1) :
        ( /\ Len(requests) >= k + 1
          /\ \A j \in 1..k : requests[j] = "429"
          /\ requests[k + 1] = "enough" )
        => /\ PhaseDone
           /\ Len(requests) = k + 1
           /\ LastPhase.status = "Alive"
           /\ LastPhase.requests = k + 1
           /\ slept = RateLimitSleep * k

\* C5 witness: a phase answered 429, 429, then a sufficient 200 has returned.
C5_Witness ==
    /\ PhaseDone
    /\ requests = << "429", "429", "enough" >>
    /\ LastPhase.status = "Alive"

\* C6 (as claimed): a phase in which every response is a qualifying 200
\* whose body ends below the threshold returns Dead.
C6_ShortBodiesAreDead ==
    (PhaseDone /\ AllRequests("short")) => LastPhase.status = "Dead"

\* C7: the verdict returned is Alive only if the last phase returned Alive
\* and the decode verification then exited with status 0; a non-zero exit
\* or a timeout of the verification gives Dead; a Dead phase result is
\* returned as Dead without the verification being run.
C7_AliveOnlyIfVerified ==
    /\ (ppc = "returned" /\ pstatus = "Alive") =>
           (LastPhase.status = "Alive" /\ ffmpeg_runs = << "exit0" >>)
    /\ (ppc = "returned" /\ Len(ffmpeg_runs) > 0
        /\ ffmpeg_runs[1] \in { "nonzero", "timeout" }) => pstatus = "Dead"
    /\ Len(ffmpeg_runs) > 0 =>
           (Len(ffmpeg_runs) = 1 /\ LastPhase.status = "Alive")
    /\ (ppc = "returned" /\ LastPhase.status = "Dead") =>
           (pstatus = "Dead" /\ ffmpeg_runs = << >>)

\* C7 witness: a probe has returned Alive.
C7_Witness ==
    /\ ppc = "returned"
    /\ pstatus = "Alive"
    /\ ffmpeg_runs = << "exit0" >>

\* C8 (as claimed): a run whose catalogue file can be read is not stopped
\* by anything that happens while an entry is handled.
C8_EntryFailuresIsolated == pc = "aborted" => ~ playlist.exists

\* C9: after a response with a status other than 200 and 429, a 200 that
\* is no stream, or a failed request, the phase issues no further request
\* and has returned Dead.
TerminalClasses ==
    { "other_status", "not_stream", "ConnectionError", "Timeout",
      "RequestException" }

C9_TerminalNotRetried ==
    \A j \in 1..Len(requests) :
        requests[j] \in TerminalClasses
        => /\ j = Len(requests)
           /\ PhaseDone
           /\ LastPhase.status = "Dead"
           /\ LastPhase.requests = j

\* C9 witness: a phase has returned on a 404 that followed a 429, with
\* retries left.
C9_Witness ==
    /\ PhaseDone
    /\ requests = << "429", "other_status" >>
    /\ attempt < retries

\* C10: a phase never issues more than retries requests; one in which
\* every response is 429 sleeps after each, and returns only after exactly
\* retries requests, with Dead.
C10_RateLimitExhausted ==
    /\ Len(requests) <= retries
    /\ AllRequests("429") =>
           /\ slept = RateLimitSleep * Len(requests)
           /\ PhaseDone =>
                  /\ Len(requests) = retries
                  /\ LastPhase.status = "Dead"
                  /\ LastPhase.requests = retries

\* C10 witness: a phase answered 429 retries times has returned.
C10_Witness ==
    /\ PhaseDone
    /\ Len(requests) = retries
    /\ AllRequests("429")
    /\ LastPhase.status = "Dead"

\* The prober is past line 101: every phase it runs has returned
PhasesDecided == ppc \in { "verify", "returned", "raised" }

EntryPairs(file) ==
    { << file.lines[2 * k], file.lines[2 * k + 1] >> :
          k \in 1..((Len(file.lines) - 1) \div 2) }

\* The entries classified in this run with verdict st, as the run held
\* them (line, next_line) when it classified them
ClassifiedAs(st) ==
    { << classified[k].line, classified[k].url >> :
          k \in { j \in 1..Len(classified) : classified[j].status = st } }

CountClassifiedAs(st) ==
    Cardinality({ j \in 1..Len(classified) : classified[j].status = st })

\* C12: when a run with partitioning completes, the working catalogue
\* lists exactly the entries classified Alive in the run and the dead
\* catalogue exactly those classified Dead; no entry is in both and every
\* classified entry is in one of them.
C12_PartitionByVerdict ==
    (pc = "done" /\ split) =>
        /\ working_playlist.exists /\ dead_playlist.exists
        /\ Head(working_playlist.lines) = EXTM3U
        /\ Head(dead_playlist.lines) = EXTM3U
        /\ Len(working_playlist.lines) = 1 + 2 * CountClassifiedAs("Alive")
        /\ Len(dead_playlist.lines) = 1 + 2 * CountClassifiedAs("Dead")
        /\ EntryPairs(working_playlist) = ClassifiedAs("Alive")
        /\ EntryPairs(dead_playlist) = ClassifiedAs("Dead")
        /\ EntryPairs(working_playlist) \cap EntryPairs(dead_playlist) = {}
        /\ CountClassifiedAs("Alive") + CountClassifiedAs("Dead")
               = Len(classified)

\* C12 witness: a run with partitioning has completed with one entry in
\* each catalogue.
C12_Witness ==
    /\ pc = "done"
    /\ split
    /\ Len(classified) = 2
    /\ classified[1].status = "Alive"
    /\ classified[2].status = "Dead"
    /\ Len(working_playlist.lines) = 3
    /\ Len(dead_playlist.lines) = 3

\* C13 (as claimed): when renaming is requested, the renamed catalogue is
\* emitted at the end of the run, with or without partitioning.
C13_RenamedAlwaysEmitted ==
    (pc = "done" /\ rename) => renamed_playlist.exists

\* A line of the source catalogue as the run reads it (line 302)
SourceLine(k) == strip(Lines[k])

\* C13 (amended): when renaming is requested and partitioning is not, the
\* renamed catalogue is emitted at the end of the run: the header, then
\* one line per line of the source catalogue, each either the source line
\* or the metadata line the run held for an entry it classified Alive;
\* when partitioning is requested, only the partitioned catalogues are
\* emitted, the working catalogue listing the Alive entries under the
\* metadata lines the run held for them; without renaming no renamed
\* catalogue is emitted.
C13_RenamedUnlessPartitioned ==
    pc = "done" =>
        /\ (rename /\ ~ split) =>
               /\ renamed_playlist.exists
               /\ Head(renamed_playlist.lines) = EXTM3U
               /\ Len(renamed_playlist.lines) = 1 + Len(Lines)
               /\ \A k \in 1..Len(Lines) :
                      \/ renamed_playlist.lines[k + 1] = SourceLine(k)
                      \/ \E j \in 1..Len(classified) :
                             /\ classified[j].status = "Alive"
                             /\ classified[j].line
                                    = renamed_playlist.lines[k + 1]
                             /\ k < Len(Lines)
                             /\ classified[j].url = SourceLine(k + 1)
               /\ \A j \in 1..Len(classified) :
                      classified[j].status = "Alive" =>
                          classified[j].line \in Range(renamed_playlist.lines)
               /\ ~ working_playlist.exists /\ ~ dead_playlist.exists
        /\ (rename /\ split) =>
               /\ ~ renamed_playlist.exists
               /\ working_playlist.exists /\ dead_playlist.exists
               /\ \A j \in 1..Len(classified) :
                      classified[j].status = "Alive" =>
                          classified[j].line \in Range(working_playlist.lines)
        /\ ~ rename => ~ renamed_playlist.exists

\* C13 witness: a run with renaming and without partitioning has emitted a
\* renamed catalogue in which the metadata line of an Alive entry is
\* renamed.
C13_Witness ==
    /\ pc = "done"
    /\ rename /\ ~ split
    /\ renamed_playlist.exists
    /\ Len(classified) = 2
    /\ classified[1].status = "Alive"
    /\ classified[1].line = renamed_playlist.lines[2]
    /\ renamed_playlist.lines[2] # SourceLine(1)

\* A metadata line of the source catalogue that passes the group filter
IsMetadata(k) == is_entry_line(SourceLine(k), group_title)

\* A well-formed declaration: a metadata line passing the filter,
\* immediately followed by a line that is no metadata line
WellFormedAt(k) ==
    /\ k < Len(Lines)
    /\ IsMetadata(k)
    /\ ~ startswith(SourceLine(k + 1), EXTINF)

\* C14 (as claimed): nothing but the URL line of a well-formed declaration
\* is probed, no run is stopped by a metadata line that no URL line
\* follows, and when a run completes every well-formed declaration has
\* produced its entry (its identifier is in the processed set).
C14_ExactlyWellFormedEntries ==
    /\ \A k \in 1..Len(probed) : ~ startswith(probed[k].url, EXTINF)
    /\ pc = "done" =>
           \A k \in 1..Len(Lines) :
               WellFormedAt(k) =>
                   identifier_of(channel_name_of(SourceLine(k)),
                                 SourceLine(k + 1)) \in processed_channels

\* C15 (as claimed): a run ended by an interrupt has stopped between two
\* entries (every entry it probed it has also classified and reported),
\* and every output catalogue it leaves is whole: the header and both
\* lines of every entry it lists, one line per source line for the renamed
\* catalogue.
C15_CoarseCancellation ==
    pc = "exited" =>
        /\ Len(probed) = Len(classified)
        /\ working_playlist.exists =>
               Len(working_playlist.lines)
                   = 1 + 2 * CountClassifiedAs("Alive")
        /\ dead_playlist.exists =>
               Len(dead_playlist.lines) = 1 + 2 * CountClassifiedAs("Dead")
        /\ renamed_playlist.exists =>
               Len(renamed_playlist.lines) = 1 + Len(Lines)

\* C15, the part about writes alone: an interrupted run leaves no output
\* catalogue that lacks its header or ends in the middle of an entry.
C15_NoHalfWrittenCatalogue ==
    pc = "exited" =>
        /\ working_playlist.exists => Len(working_playlist.lines) % 2 = 1
        /\ dead_playlist.exists => Len(dead_playlist.lines) % 2 = 1

\* The entries classified in this run with verdict st, in the order in
\* which the run classified them
ClassifiedSeq(st) == SelectSeq(classified, LAMBDA c : c.status = st)

\* file lists exactly the entries of seq, in the order of seq
ListsInOrder(file, seq) ==
    /\ Len(file.lines) = 1 + 2 * Len(seq)
    /\ \A k \in 1..Len(seq) :
           /\ file.lines[2 * k] = seq[k].line
           /\ file.lines[2 * k + 1] = seq[k].url

\* C16: entries are probed, and classified, in the order of their lines
\* in the source catalogue, and when a run with partitioning completes
\* each partitioned catalogue lists its entries in that order.
C16_CatalogueOrderKept ==
    /\ \A j, k \in 1..Len(probed) :
           j < k => probed[j].i < probed[k].i
    /\ \A j, k \in 1..Len(classified) :
           j < k => classified[j].i < classified[k].i
    /\ \A k \in 1..Len(classified) :
           /\ probed[k].i = classified[k].i
           /\ classified[k].url = SourceLine(classified[k].i + 2)
    /\ (pc = "done" /\ split) =>
           /\ ListsInOrder(working_playlist, ClassifiedSeq("Alive"))
           /\ ListsInOrder(dead_playlist, ClassifiedSeq("Dead"))

\* C16 witness: a run with partitioning has completed with two entries in
\* the working catalogue.
C16_Witness ==
    /\ pc = "done"
    /\ split
    /\ Len(ClassifiedSeq("Alive")) = 2
    /\ Len(working_playlist.lines) = 5
    /\ working_playlist.lines[3] = SourceLine(2)
    /\ working_playlist.lines[5] = SourceLine(4)

\* A malformed checkpoint line: one without the " - " delimiter
Malformed(line) == ~ contains(line, << " ", "-", " " >>)

\* C17: loading a missing checkpoint file gives the empty set and the
\* counter 0; a line without the delimiter adds nothing to the set and
\* leaves the counter as it is, and the other lines are loaded as if it
\* were not there: the result is that of loading the file without its
\* malformed lines, and holds the identifier field of every other line.
C17_LoadFailsSoft ==
    pc = "open" =>
        /\ ~ log_file.exists =>
               (processed_channels = {} /\ last_index = 0)
        /\ log_file.exists =>
               /\ [ processed_channels |-> processed_channels,
                    last_index |-> last_index ]
                  = load_processed_channels(
                        File(SelectSeq(log_file.lines,
                                       LAMBDA l : ~ Malformed(l))))
               /\ \A k \in 1..Len(log_file.lines) :
                      ~ Malformed(log_file.lines[k]) =>
                          IdentifierField(log_file.lines[k])
                              \in processed_channels
               /\ (\A k \in 1..Len(log_file.lines) :
                       Malformed(log_file.lines[k])) =>
                      (processed_channels = {} /\ last_index = 0)

\* C17 witness: a file with a malformed line between two other lines has
\* been loaded, both other lines counted.
C17_Witness ==
    /\ pc = "open"
    /\ log_file.exists
    /\ Len(log_file.lines) = 3
    /\ log_file.lines[1] = PlainIndexLine
    /\ Malformed(log_file.lines[2])
    /\ log_file.lines[3] = FormatRecord(Record(1, 12, Id_a_u))
    /\ processed_channels = { Id_a_u, Id_b_u }
    /\ last_index = 3

\* check_label_mismatch has returned for the call
LabelReturned == call.fn = "check_label_mismatch" /\ returned # << >>

\* The name of the call contains sub, whatever the case of its letters
NameHas(sub) == contains(lower(call.channel_name), sub)

\* The rule that applies to the name of the call, the first that matches
\* in the order 4k/uhd, 1080p/fhd, hd, none
LabelRule ==
    IF NameHas(<< "4", "k" >>) \/ NameHas(<< "u", "h", "d" >>) THEN "4K"
    ELSE IF NameHas(<< "1", "0", "8", "0", "p" >>)
            \/ NameHas(<< "f", "h", "d" >>) THEN "1080p"
    ELSE IF NameHas(<< "h", "d" >>) THEN "720p or 1080p"
    ELSE "4K label"

\* The resolution of the call violates the rule that applies
RuleViolated ==
    CASE LabelRule = "4K" -> call.resolution # R_4K
      [] LabelRule = "1080p" -> call.resolution # R_1080p
      [] LabelRule = "720p or 1080p" ->
             call.resolution \notin { R_1080p, R_720p }
      [] OTHER -> call.resolution = R_4K

\* C18: check_label_mismatch returns exactly one finding, that of the
\* first rule its name matches (without regard to case), when the
\* resolution violates that rule, and no finding otherwise.
C18_LabelRulesFirstMatch ==
    LabelReturned =>
        /\ Len(returned[1]) <= 1
        /\ Len(returned[1]) = 1 <=> RuleViolated
        /\ Len(returned[1]) = 1 =>
               /\ returned[1][1].expected = LabelRule
               /\ returned[1][1].got = call.resolution

\* C18 witness: a name containing "4K" measured 1080p has given one
\* finding that expects 4K.
C18_Witness ==
    /\ LabelReturned
    /\ call.channel_name = << "x", "4", "K", "y" >>
    /\ call.resolution = R_1080p
    /\ returned[1] = << [ expected |-> "4K", got |-> R_1080p ] >>

\* get_stream_info has returned for the call
StreamInfoReturned == call.fn = "get_stream_info" /\ returned # << >>

\* ffprobe reported both a width and a height
Measured == call.ended = "exit" /\ call.has_width /\ call.has_height

AtLeast(w, h) == call.width >= w /\ call.height >= h

\* C19: for a positive width and height get_stream_info returns the
\* resolution 4K from 3840x2160 on, else 1080p from 1920x1080 on, else
\* 720p from 1280x720 on, else SD; Unknown, and no failure, when the width
\* or the height is missing or ffprobe timed out.
C19_ResolutionClasses ==
    StreamInfoReturned =>
        /\ returned[1].raised = None
        /\ ~ Measured => returned[1].resolution = Unknown
        /\ (Measured /\ call.width > 0 /\ call.height > 0) =>
               returned[1].resolution =
                   IF AtLeast(3840, 2160) THEN R_4K
                   ELSE IF AtLeast(1920, 1080) THEN R_1080p
                   ELSE IF AtLeast(1280, 720) THEN R_720p
                   ELSE R_SD

\* C19 witness: 1920x1080 has been classified 1080p.
C19_Witness ==
    /\ StreamInfoReturned
    /\ Measured
    /\ call.width = 1920
    /\ call.height = 1080
    /\ returned[1].resolution = R_1080p

\* The resume counter the run loaded (line 265)
LoadedCounter == load_processed_channels(log_file).last_index

\* C20: the k-th entry a run processes is reported with the loaded resume
\* counter plus k; an entry that is skipped is not counted.
C20_NumberingContinues ==
    pc # "start" =>
        /\ \A k \in 1..Len(console) :
               console[k].current_channel = LoadedCounter + k
        /\ \A k \in 1..Len(classified) :
               /\ classified[k].current_channel = LoadedCounter + k
               /\ console[k].current_channel = classified[k].current_channel
        /\ Len(console) = Len(classified)
        /\ pc # "exited" => current_channel = LoadedCounter + Len(probed)

\* C20 witness: with the counter 3 loaded, a run has skipped its first
\* entry and reported its second with the index 4.
C20_Witness ==
    /\ pc = "done"
    /\ LoadedCounter = 3
    /\ loaded_channels = { Id_b_u }
    /\ Lines = << Line_b, Line_u, Line_a, Line_u >>
    /\ group_title = << >>
    /\ Len(console) = 1
    /\ console[1].channel_name = << "a" >>
    /\ console[1].current_channel = 4

\* C21: within one run no identifier is probed twice, also when the
\* catalogue lists the same name and URL several times; a later duplicate
\* is neither probed nor reported and adds nothing to either partition.
C21_ProbedAtMostOncePerRun ==
    /\ \A j, k \in 1..Len(probed) :
           j # k => probed[j].identifier # probed[k].identifier
    /\ \A j, k \in 1..Len(classified) :
           j # k => classified[j].identifier # classified[k].identifier
    /\ \A k \in 1..Len(classified) :
           /\ classified[k].identifier = probed[k].identifier
           /\ classified[k].i = probed[k].i
    /\ Len(console) = Len(classified)
    /\ pc \in { "loop", "probed", "done", "aborted" } =>
           /\ Len(working_channels) + Len(dead_channels)
                  = IF split THEN Len(classified) ELSE 0
           /\ \A k \in 1..Len(classified) :
                  classified[k].identifier \in processed_channels

\* C21 witness: a run with partitioning has completed on a catalogue that
\* lists the same entry twice, with one probe and one partition entry.
C21_Witness ==
    /\ pc = "done"
    /\ split
    /\ group_title = << >>
    /\ loaded_channels = {}
    /\ Lines = << Line_a, Line_u, Line_a, Line_u >>
    /\ Len(probed) = 1
    /\ probed[1].identifier = Id_a_u
    /\ probed[1].i = 0
    /\ Len(working_channels) + Len(dead_channels) = 1
    /\ Len(working_playlist.lines) + Len(dead_playlist.lines) = 4

\* The HTTP requests a call of the prober has issued so far, over its
\* phases
RequestsIssued ==
    IF InPhase
    THEN Len(requests) + (IF Len(phases) = 1 THEN phases[1].requests ELSE 0)
    ELSE (IF Len(phases) >= 1 THEN phases[1].requests ELSE 0)
         + (IF Len(phases) >= 2 THEN phases[2].requests ELSE 0)

\* C22: every call of the prober ends by returning Alive or Dead, whatever
\* the server answers, having issued at most retries requests in a phase,
\* at most 2 * retries requests in all, and having run the decode
\* verification at most once.
C22_ProbeTerminatesWithVerdict ==
    /\ [](/\ Len(requests) <= retries
          /\ \A k \in 1..Len(phases) : phases[k].requests <= retries
          /\ RequestsIssued <= 2 * retries
          /\ Len(ffmpeg_runs) <= 1)
    /\ [](ppc # "raised")
    /\ <>(ppc = "returned" /\ pstatus \in { "Alive", "Dead" })

=============================================================================
